---- MODULE Spec2Model ----
(***************************************************************************)
(* Model of hunterlogging/collector.py: the DatabaseManager (size-bounded  *)
(* SQLite event store) and the LogCollector (ZeroMQ PULL receive loop).    *)
(*                                                                         *)
(* The collector is one thread; its position is pc.  The steps of          *)
(* insert_event are separate actions because a signal may arrive between   *)
(* any two of them.  The signal handler is the only other actor.           *)
(***************************************************************************)
EXTENDS Integers, Sequences, FiniteSets

VARIABLES
    store,          \* rows of table Events, in rowid (insertion) order
    free,           \* bytes of the database file held by freed pages
    running,        \* LogCollector.running
    pc,             \* position of the main thread
    socket,         \* "open" | "bound" | "closed"
    context,        \* "open" | "terminated"
    message,        \* the payload received in this iteration, or NoMessage
    event,          \* the arguments of the insert_event call, or NoEvent
    current_size,   \* local of insert_event (line 70)
    exc,            \* the exception in flight or propagated, or NoExc
    report,         \* the last logging record written: level and text
    now,            \* the UTC clock, in seconds
    received,       \* number of messages received so far
    prior,          \* history: the rows held when insert_event was entered
    calls,          \* history: insert_event calls made for `message`
    begunAfterStop, \* history: insert_event calls begun with running = FALSE
    cleanups        \* history: number of times cleanup() has run

vars == <<store, free, running, pc, socket, context, message, event,
          current_size, exc, report, now, received, prior, calls,
          begunAfterStop, cleanups>>

----------------------------------------------------------------------------
(* Bounds of the model *)

\* Messages the producers deliver during one run.
MaxMsgs == 4
\* Seconds the clock may advance during one run.
MaxTicks == 3
\* Rows removed by one eviction.  The source's default is 1000 (line 44); the
\* model scales it so that stores of a few rows cover both fewer and more
\* rows than one batch.
EvictBatch == 2
\* Calls of start() on one collector (main makes one; lines 117-137 allow a
\* caller to make more).
MaxStarts == 2
\* Clock value at process start: 2024-01-01T00:00:00Z.
StartTime == 1704067200

----------------------------------------------------------------------------
(* Program constants *)

MAX_SIZE_BYTES == 15 * 1024 * 1024

num_entries == EvictBatch

\* An empty database with the schema: page 1, the table root and four index
\* roots, 4096 bytes each.
SchemaBytes == 6 * 4096

MiB == 1024 * 1024

\* Bytes a row (with its index entries) takes in the file.  Real rows are
\* small; the sizes are scaled with EvictBatch so that a few rows fill the
\* file, and one size is larger than the whole ceiling.
RowSizes == {5 * MiB, 16 * MiB}

----------------------------------------------------------------------------
(* Values.  A Python value is a tagged record so that values of different *)
(* types can be compared.                                                  *)

Str(s) == [t |-> "str", s |-> s]
Num(s) == [t |-> "int", s |-> s]
None   == [t |-> "None", s |-> ""]
Absent == [t |-> "absent", s |-> ""]     \* key not in the dict

NoMessage == [text |-> "", bytes |-> 0, held |-> FALSE]
NoEvent ==
    [held |-> FALSE, timestamp |-> 0, loglevel |-> None, source |-> None,
     category |-> None, content |-> None]
NoExc     == [type |-> "", msg |-> ""]

Exc(type, msg) == [type |-> type, msg |-> msg]

Log(level, text) == [level |-> level, text |-> text]
NoLog == Log("", "")

----------------------------------------------------------------------------
(* json.loads, datetime.fromisoformat, str.upper on the payloads used *)

P_FULL   == "{\"timestamp\":\"2024-01-01T00:00:00+05:00\",\"level\":\"warn\",\"source\":\"agentA\",\"category\":\"disk\",\"message\":\"disk low\"}"
P_MIN    == "{\"level\":\"warn\",\"source\":\"agentA\",\"message\":\"disk low\"}"
P_EMPTYOBJ == "{}"
P_NAIVE  == "{\"timestamp\":\"2024-01-01T00:00:00\",\"message\":\"m\"}"
P_BADTS  == "{\"timestamp\":\"yesterday\",\"message\":\"m\"}"
P_NUMTS  == "{\"timestamp\":1704067200,\"message\":\"m\"}"
P_NULLLEVEL == "{\"level\":null,\"message\":\"m\"}"
P_NULLMSG == "{\"message\":null}"
P_EMPTYMSG == "{\"message\":\"\"}"
P_INTMSG == "{\"message\":5}"
P_NUMBER == "123"
P_LIST   == "[1]"
P_STRING == "\"hi\""
P_TEXT   == "not-json-at-all"
P_EMPTY  == ""

Payloads == {P_FULL, P_MIN, P_EMPTYOBJ, P_NAIVE, P_BADTS, P_NUMTS,
             P_NULLLEVEL, P_NULLMSG, P_EMPTYMSG, P_INTMSG, P_NUMBER, P_LIST,
             P_STRING, P_TEXT, P_EMPTY}

Dict(ts, lv, so, ca, ms) ==
    [kind |-> "dict", timestamp |-> ts, level |-> lv, source |-> so,
     category |-> ca, message |-> ms]

\* json.loads(message): the parsed value, or kind "JSONDecodeError".
json_loads(p) ==
    CASE p = P_FULL -> Dict(Str("2024-01-01T00:00:00+05:00"), Str("warn"),
                            Str("agentA"), Str("disk"), Str("disk low"))
      [] p = P_MIN -> Dict(Absent, Str("warn"), Str("agentA"), Absent,
                           Str("disk low"))
      [] p = P_EMPTYOBJ -> Dict(Absent, Absent, Absent, Absent, Absent)
      [] p = P_NAIVE -> Dict(Str("2024-01-01T00:00:00"), Absent, Absent,
                             Absent, Str("m"))
      [] p = P_BADTS -> Dict(Str("yesterday"), Absent, Absent, Absent,
                             Str("m"))
      [] p = P_NUMTS -> Dict(Num("1704067200"), Absent, Absent, Absent,
                             Str("m"))
      [] p = P_NULLLEVEL -> Dict(Absent, None, Absent, Absent, Str("m"))
      [] p = P_NULLMSG -> Dict(Absent, Absent, Absent, Absent, None)
      [] p = P_EMPTYMSG -> Dict(Absent, Absent, Absent, Absent, Str(""))
      [] p = P_INTMSG -> Dict(Absent, Absent, Absent, Absent, Num("5"))
      [] p = P_NUMBER -> [kind |-> "int"]
      [] p = P_LIST -> [kind |-> "list"]
      [] p = P_STRING -> [kind |-> "str"]
      [] OTHER -> [kind |-> "JSONDecodeError"]

\* datetime.fromisoformat(s): the wall-clock reading as seconds since the
\* epoch, and the UTC offset when the string carries one.
fromisoformat(s) ==
    CASE s = "2024-01-01T00:00:00+05:00" ->
            [ok |-> TRUE, wall |-> 1704067200, aware |-> TRUE,
             utcoffset |-> 5 * 3600]
      [] s = "2024-01-01T00:00:00" ->
            [ok |-> TRUE, wall |-> 1704067200, aware |-> FALSE,
             utcoffset |-> 0]
      [] OTHER -> [ok |-> FALSE, wall |-> 0, aware |-> FALSE, utcoffset |-> 0]

\* str.upper()
upper(s) ==
    CASE s = "warn" -> "WARN"
      [] s = "info" -> "INFO"
      [] OTHER -> s

----------------------------------------------------------------------------
(* LogCollector._process_message, lines 141-159: payload to event *)

Event(ts, lv, so, ca, ms) ==
    [held |-> TRUE, timestamp |-> ts, loglevel |-> lv, source |-> so,
     category |-> ca, content |-> ms]

Raised(e) == [raised |-> e, event |-> NoEvent]
Built(ev) == [raised |-> NoExc, event |-> ev]

\* dict.get(key, default) on a parsed object: v is the value under the key.
get(v, default) == IF v = Absent THEN default ELSE v

\* Lines 143-148.  The default of data.get('timestamp', ...) is the clock
\* reading t, formatted with its +00:00 offset and parsed again.
Timestamp(v, t) ==
    IF v = Absent THEN [ok |-> TRUE, value |-> t, exc |-> NoExc]
    ELSE IF v.t # "str"
    THEN [ok |-> FALSE, value |-> 0,
          exc |-> Exc("TypeError", "fromisoformat: argument must be str")]
    ELSE LET dt == fromisoformat(v.s) IN
         IF ~dt.ok
         THEN [ok |-> FALSE, value |-> 0,
               exc |-> Exc("ValueError", "Invalid isoformat string")]
         ELSE IF ~dt.aware
         THEN [ok |-> TRUE, value |-> dt.wall, exc |-> NoExc]
         ELSE [ok |-> TRUE, value |-> dt.wall - dt.utcoffset, exc |-> NoExc]

\* Variant: the fallback event keeps the level in lower case.
FallbackLevelLower(text, t) ==
    Built(Event(t, Str("info"), Str("UNKNOWN"), None, Str(text)))

\* Lines 155-159: the event for a payload that is not JSON.
Fallback(text, t) ==
    Built(Event(t, Str("INFO"), Str("UNKNOWN"), None, Str(text)))

\* Variant: the level is passed through without .upper().
FromObjectNoUpper(data, text, t) ==
    LET ts == Timestamp(data.timestamp, t)
        lv == get(data.level, Str("INFO"))
    IN  IF ~ts.ok THEN Raised(ts.exc)
        ELSE IF lv.t # "str"
        THEN Raised(Exc("AttributeError", "object has no attribute 'upper'"))
        ELSE Built(Event(ts.value,
                         lv,
                         get(data.source, Str("UNKNOWN")),
                         get(data.category, None),
                         get(data.message, Str(text))))

\* Lines 143-152: the event for a payload parsed to a dict.
FromObject(data, text, t) ==
    LET ts == Timestamp(data.timestamp, t)
        lv == get(data.level, Str("INFO"))
    IN  IF ~ts.ok THEN Raised(ts.exc)
        ELSE IF lv.t # "str"
        THEN Raised(Exc("AttributeError", "object has no attribute 'upper'"))
        ELSE Built(Event(ts.value,
                         Str(upper(lv.s)),
                         get(data.source, Str("UNKNOWN")),
                         get(data.category, None),
                         get(data.message, Str(text))))

\* The except clause of line 154 catches json.JSONDecodeError only; any other
\* exception of lines 142-152 leaves _process_message.
Normalize(text, t) ==
    LET data == json_loads(text) IN
    IF data.kind = "JSONDecodeError"
    THEN Fallback(text, t)
    ELSE IF data.kind # "dict"
    THEN Raised(Exc("AttributeError", "object has no attribute 'get'"))
    ELSE FromObject(data, text, t)

----------------------------------------------------------------------------
(* DatabaseManager *)

Row(ev, bytes) ==
    [Timestamp |-> ev.timestamp, Loglevel |-> ev.loglevel,
     Source |-> ev.source, Category |-> ev.category, Message |-> ev.content,
     bytes |-> bytes]

RECURSIVE SumBytes(_)
SumBytes(rows) ==
    IF rows = <<>> THEN 0 ELSE Head(rows).bytes + SumBytes(Tail(rows))

\* _get_db_size of a file holding `rows` and `fr` bytes of freed pages.
FileSize(rows, fr) == SchemaBytes + SumBytes(rows) + fr

_get_db_size == FileSize(store, free)

\* Variant: the threshold is half of the ceiling (MAX_SIZE_BYTES * 0.5).
NearLimitHalf(size) == 2 * size >= MAX_SIZE_BYTES

\* current_size >= MAX_SIZE_BYTES * 0.9 (line 72); 0.9 * MAX_SIZE_BYTES is
\* the integer 14155776, so the comparison is exact in integers.
NearLimit(size) == 10 * size >= 9 * MAX_SIZE_BYTES

\* Variant: the recheck compares against twice the ceiling.
OverLimitTwice(size) == size >= 2 * MAX_SIZE_BYTES

\* Line 77.
OverLimit(size) == size >= MAX_SIZE_BYTES

\* Variant: the subquery returns one row more than asked (LIMIT n + 1).
OldestTimestampsOffByOne(rows, n) ==
    { rows[i].Timestamp : i \in
        { i \in 1..Len(rows) :
            Cardinality({ j \in 1..Len(rows) :
                            rows[j].Timestamp < rows[i].Timestamp }) <= n } }

\* SELECT Timestamp FROM Events ORDER BY Timestamp ASC LIMIT n: the values
\* of the n first rows in timestamp order.  A value is among them exactly
\* when fewer than n rows have a smaller timestamp.
OldestTimestamps(rows, n) ==
    { rows[i].Timestamp : i \in
        { i \in 1..Len(rows) :
            Cardinality({ j \in 1..Len(rows) :
                            rows[j].Timestamp < rows[i].Timestamp }) < n } }

\* Variant: the n rows inserted first are deleted (ORDER BY rowid).
RemoveFirstInserted(rows, n) ==
    IF Len(rows) <= n THEN <<>> ELSE SubSeq(rows, n + 1, Len(rows))

\* DELETE FROM Events WHERE Timestamp IN (...): the rows that stay.
_remove_oldest_entries(rows, n) ==
    LET T == OldestTimestamps(rows, n)
        Keep(r) == r.Timestamp \notin T
    IN  SelectSeq(rows, Keep)

\* Columns declared NOT NULL (lines 16-20).
ViolatesNotNull(ev) ==
    \/ ev.loglevel = None
    \/ ev.source = None
    \/ ev.content = None

SIZE_LIMIT_MSG == "Database size limit reached and cleanup unsuccessful"

\* "Database size limit reached" in str(e), line 165.
HasSizeLimitText(e) == e.msg = SIZE_LIMIT_MSG

\* except sqlite3.Error (line 164) catches the class and its subclasses.
IsSqliteError(e) ==
    e.type \in {"sqlite3.Error", "sqlite3.IntegrityError",
                "sqlite3.OperationalError"}

\* content[:100] in line 163 needs a str.
Sliceable(v) == v.t = "str"

----------------------------------------------------------------------------
(* Initial state: a constructed LogCollector (lines 87-99) on a new         *)
(* database file (lines 31-38).                                            *)

\* The payloads the producers send in the receive loop.
LoopPayloads == {P_TEXT, P_FULL, P_NUMBER, P_NULLMSG, P_INTMSG}

Init ==
    /\ store = <<>>
    /\ free = 0
    /\ running = TRUE
    /\ pc = "start"
    /\ socket = "open"
    /\ context = "open"
    /\ message = NoMessage
    /\ event = NoEvent
    /\ current_size = 0
    /\ exc = NoExc
    /\ report = NoLog
    /\ now = StartTime
    /\ received = 0
    /\ prior = <<>>
    /\ calls = 0
    /\ begunAfterStop = 0
    /\ cleanups = 0

dbVars == <<store, free, current_size, prior>>
netVars == <<socket, context>>
msgVars == <<message, event, received, calls>>

----------------------------------------------------------------------------
(* LogCollector._signal_handler, lines 112-115 *)

Signal ==
    /\ pc # "exited"
    /\ running' = FALSE
    /\ report' = Log("WARNING",
                    "Shutdown signal received, stopping collector...")
    /\ UNCHANGED <<dbVars, netVars, msgVars, pc, exc, now, begunAfterStop,
                   cleanups>>

----------------------------------------------------------------------------
(* LogCollector.start, lines 117-137 *)

\* Variant: bind does not look at the state of the socket.
BindAnySocket ==
    /\ pc = "start"
    /\ socket' = "bound"
    /\ report' = Log("INFO", "Log collector started")
    /\ pc' = "while"
    /\ UNCHANGED <<dbVars, context, msgVars, running, exc, now,
                   begunAfterStop, cleanups>>

\* Line 120-121, bind succeeds; it cannot on a closed socket.
Bind ==
    /\ pc = "start"
    /\ socket = "open"
    /\ socket' = "bound"
    /\ report' = Log("INFO", "Log collector started")
    /\ pc' = "while"
    /\ UNCHANGED <<dbVars, context, msgVars, running, exc, now,
                   begunAfterStop, cleanups>>

\* The zmq.ZMQError of bind: the address is in use, or the socket has been
\* closed by an earlier cleanup.
BindError(sock) ==
    IF sock = "closed"
    THEN Exc("zmq.ZMQError", "Socket operation on non-socket")
    ELSE Exc("zmq.ZMQError", "Address already in use")

\* Variant: bind is inside the try of line 124, so its error is only reported.
BindFailsIgnored ==
    /\ pc = "start"
    /\ exc' = BindError(socket)
    /\ pc' = "while"
    /\ UNCHANGED <<dbVars, netVars, msgVars, running, report, now,
                   begunAfterStop, cleanups>>

\* Line 120, bind raises (the address is in use, the socket is closed): the
\* handler of line 133 is next.
BindFails ==
    /\ pc = "start"
    /\ exc' = BindError(socket)
    /\ pc' = "except_start"
    /\ UNCHANGED <<dbVars, netVars, msgVars, running, report, now,
                   begunAfterStop, cleanups>>

\* Variant: the loop does not look at the flag (while True).
WhileTrue(r) == TRUE

\* Line 123: while self.running.
WhileRunning(r) == r

While ==
    /\ pc = "while"
    /\ pc' = IF WhileRunning(running) THEN "poll" ELSE "cleanup"
    /\ UNCHANGED <<dbVars, netVars, msgVars, running, exc, report, now,
                   begunAfterStop, cleanups>>

\* Line 126: poll(timeout=1000) returns 0 after the timeout.
PollTimeout ==
    /\ pc = "poll"
    /\ \E d \in 0..1 :
         /\ now + d <= StartTime + MaxTicks
         /\ now' = now + d
    /\ pc' = "while"
    /\ UNCHANGED <<dbVars, netVars, msgVars, running, exc, report,
                   begunAfterStop, cleanups>>

\* Line 126: poll returns nonzero, a message is waiting.
PollReady ==
    /\ pc = "poll"
    /\ received < MaxMsgs
    /\ \E d \in 0..1 :
         /\ now + d <= StartTime + MaxTicks
         /\ now' = now + d
    /\ pc' = "recv"
    /\ UNCHANGED <<dbVars, netVars, msgVars, running, exc, report,
                   begunAfterStop, cleanups>>

\* Variant: the handler of line 129 re-raises instead of continuing.
TransportErrorEndsLoop ==
    /\ pc \in {"poll", "recv"}
    /\ report' = Log("ERROR", "ZMQ Error receiving message")
    /\ exc' = Exc("zmq.ZMQError", "Resource temporarily unavailable")
    /\ pc' = "except_start"
    /\ UNCHANGED <<dbVars, netVars, msgVars, running, now, begunAfterStop,
                   cleanups>>

\* Lines 126-127 raise zmq.ZMQError; lines 129-131 report it and continue.
TransportError ==
    /\ pc \in {"poll", "recv"}
    /\ report' = Log("ERROR", "ZMQ Error receiving message")
    /\ pc' = "while"
    /\ UNCHANGED <<dbVars, netVars, msgVars, running, exc, now,
                   begunAfterStop, cleanups>>

\* Line 127: recv_string returns the decoded payload.
Recv ==
    /\ pc = "recv"
    /\ \E p \in LoopPayloads, b \in RowSizes :
         message' = [text |-> p, bytes |-> b, held |-> TRUE]
    /\ received' = received + 1
    /\ calls' = 0
    /\ event' = NoEvent
    /\ pc' = "process"
    /\ UNCHANGED <<dbVars, netVars, running, exc, report, now,
                   begunAfterStop, cleanups>>

\* Line 127: the frame is not valid UTF-8; recv_string raises
\* UnicodeDecodeError, which line 129 does not catch.
RecvUndecodable ==
    /\ pc = "recv"
    /\ received' = received + 1
    /\ message' = NoMessage
    /\ calls' = 0
    /\ event' = NoEvent
    /\ exc' = Exc("UnicodeDecodeError", "invalid start byte")
    /\ pc' = "except_start"
    /\ UNCHANGED <<dbVars, netVars, running, report, now, begunAfterStop,
                   cleanups>>

\* Variant: the handler re-raises with no finally clause behind it.
ExceptStartSkipsFinally ==
    /\ pc = "except_start"
    /\ report' = Log("ERROR", "Failed to start log collector")
    /\ pc' = "returned"
    /\ UNCHANGED <<dbVars, netVars, msgVars, running, exc, now,
                   begunAfterStop, cleanups>>

\* Lines 133-135: report and re-raise; the finally of line 136 is next.
ExceptStart ==
    /\ pc = "except_start"
    /\ report' = Log("ERROR", "Failed to start log collector")
    /\ pc' = "cleanup"
    /\ UNCHANGED <<dbVars, netVars, msgVars, running, exc, now,
                   begunAfterStop, cleanups>>

\* Lines 136-137: the finally clause of start runs cleanup (lines 171-177).
Cleanup ==
    /\ pc = "cleanup"
    /\ socket' = "closed"
    /\ context' = "terminated"
    /\ report' = Log("INFO", "Cleaning up resources...")
    /\ cleanups' = cleanups + 1
    /\ pc' = "returned"
    /\ UNCHANGED <<dbVars, msgVars, running, exc, now, begunAfterStop>>

\* Lines 198-199: the finally clause of main runs cleanup again.
MainCleanup ==
    /\ pc = "returned"
    /\ socket' = "closed"
    /\ context' = "terminated"
    /\ report' = Log("INFO", "Cleaning up resources...")
    /\ cleanups' = cleanups + 1
    /\ pc' = "exited"
    /\ UNCHANGED <<dbVars, msgVars, running, exc, now, begunAfterStop>>

----------------------------------------------------------------------------
(* LogCollector._process_message, lines 139-168 *)

\* Lines 141-159; then line 162 calls insert_event.
Process ==
    /\ pc = "process"
    /\ LET r == Normalize(message.text, now) IN
         IF r.raised # NoExc
         THEN /\ exc' = r.raised
              /\ event' = NoEvent
              /\ pc' = "except_start"
         ELSE /\ event' = r.event
              /\ exc' = exc
              /\ pc' = "insert_event"
    /\ UNCHANGED <<dbVars, netVars, message, received, calls, running,
                   report, now, begunAfterStop, cleanups>>

\* Line 163: logging.info(f"Stored event: {content[:100]}...").
LogStored ==
    /\ pc = "log_stored"
    /\ IF Sliceable(event.content)
       THEN /\ report' = Log("INFO", "Stored event")
            /\ exc' = exc
            /\ pc' = "while"
       ELSE /\ exc' = Exc("TypeError", "object is not subscriptable")
            /\ report' = report
            /\ pc' = "except_start"
    /\ UNCHANGED <<dbVars, netVars, msgVars, running, now, begunAfterStop,
                   cleanups>>

\* Where an exception raised inside insert_event lands: the handler of line
\* 164 when it is a sqlite3.Error, else the handler of line 133.
Handler(e) == IF IsSqliteError(e) THEN "except_db" ELSE "except_start"

\* Variant: every database error is reported by the else branch of line 167.
DbReportAlwaysError(e) == Log("ERROR", "Database error")

\* Lines 164-168; the loop goes on with the next iteration.
DbReport(e) ==
    IF HasSizeLimitText(e)
    THEN Log("WARNING",
             "Database size limit reached. Some older logs will be removed.")
    ELSE Log("ERROR", "Database error")

ExceptDb ==
    /\ pc = "except_db"
    /\ report' = DbReport(exc)
    /\ exc' = NoExc
    /\ pc' = "while"
    /\ UNCHANGED <<dbVars, netVars, msgVars, running, now, begunAfterStop,
                   cleanups>>

----------------------------------------------------------------------------
(* DatabaseManager.insert_event, lines 66-84 *)

\* Lines 69-72: open the connection, measure the file.
Measure ==
    /\ pc = "insert_event"
    /\ current_size' = _get_db_size
    /\ prior' = store
    /\ calls' = calls + 1
    /\ begunAfterStop' = IF running THEN begunAfterStop
                         ELSE begunAfterStop + 1
    /\ pc' = IF NearLimit(_get_db_size) THEN "evict" ELSE "insert"
    /\ UNCHANGED <<store, free, netVars, message, event, received, running,
                   exc, report, now, cleanups>>

\* Variant: the INSERT is made together with the eviction, before VACUUM.
EvictInsertsFirst ==
    /\ pc = "evict"
    /\ store' = Append(_remove_oldest_entries(store, num_entries),
                       Row(event, message.bytes))
    /\ free' = free + (SumBytes(store) - SumBytes(store'))
    /\ pc' = "vacuum"
    /\ UNCHANGED <<current_size, prior, netVars, msgVars, running, exc,
                   report, now, begunAfterStop, cleanups>>

\* Line 73: _remove_oldest_entries(conn), committed; the pages of the
\* deleted rows stay in the file as free pages.
Evict ==
    /\ pc = "evict"
    /\ store' = _remove_oldest_entries(store, num_entries)
    /\ free' = free + (SumBytes(store) - SumBytes(store'))
    /\ pc' = "vacuum"
    /\ UNCHANGED <<current_size, prior, netVars, msgVars, running, exc,
                   report, now, begunAfterStop, cleanups>>

\* Line 75: VACUUM rebuilds the file without its free pages.
Vacuum ==
    /\ pc = "vacuum"
    /\ free' = 0
    /\ pc' = "recheck"
    /\ UNCHANGED <<store, current_size, prior, netVars, msgVars, running,
                   exc, report, now, begunAfterStop, cleanups>>

\* Variant: the eviction is rolled back when the size-limit error is raised.
RecheckRollsBack ==
    /\ pc = "recheck"
    /\ IF OverLimit(_get_db_size)
       THEN /\ exc' = Exc("sqlite3.Error", SIZE_LIMIT_MSG)
            /\ pc' = Handler(exc')
            /\ store' = prior
       ELSE /\ exc' = exc
            /\ pc' = "insert"
            /\ store' = store
    /\ UNCHANGED <<free, current_size, prior, netVars, msgVars, running,
                   report, now, begunAfterStop, cleanups>>

\* Lines 77-78.
Recheck ==
    /\ pc = "recheck"
    /\ IF OverLimit(_get_db_size)
       THEN /\ exc' = Exc("sqlite3.Error", SIZE_LIMIT_MSG)
            /\ pc' = Handler(exc')
       ELSE /\ exc' = exc
            /\ pc' = "insert"
    /\ UNCHANGED <<dbVars, netVars, msgVars, running, report, now,
                   begunAfterStop, cleanups>>

\* Lines 80-84: INSERT and commit.  A NULL in a NOT NULL column raises
\* sqlite3.IntegrityError and nothing is written.
Insert ==
    /\ pc = "insert"
    /\ IF ViolatesNotNull(event)
       THEN /\ exc' = Exc("sqlite3.IntegrityError",
                          "NOT NULL constraint failed")
            /\ pc' = Handler(exc')
            /\ UNCHANGED <<store, free>>
       ELSE /\ store' = Append(store, Row(event, message.bytes))
            /\ free' = IF free > message.bytes THEN free - message.bytes
                       ELSE 0
            /\ exc' = exc
            /\ pc' = "log_stored"
    /\ UNCHANGED <<current_size, prior, netVars, msgVars, running, report,
                   now, begunAfterStop, cleanups>>

\* Lines 75-84: the engine fails (disk I/O error, database is locked) in
\* VACUUM or INSERT; the statement writes nothing.
StorageError ==
    /\ pc \in {"vacuum", "insert"}
    /\ exc' = Exc("sqlite3.OperationalError", "disk I/O error")
    /\ pc' = Handler(exc')
    /\ UNCHANGED <<dbVars, netVars, msgVars, running, report, now,
                   begunAfterStop, cleanups>>

----------------------------------------------------------------------------

Next ==
    \/ Signal
    \/ Bind
    \/ BindFails
    \/ While
    \/ PollTimeout
    \/ PollReady
    \/ TransportError
    \/ Recv
    \/ RecvUndecodable
    \/ ExceptStart
    \/ Cleanup
    \/ MainCleanup
    \/ Process
    \/ LogStored
    \/ ExceptDb
    \/ Measure
    \/ Evict
    \/ Vacuum
    \/ Recheck
    \/ Insert
    \/ StorageError

Spec == Init /\ [][Next]_vars

----------------------------------------------------------------------------
(* Properties *)

Range(seq) == { seq[i] : i \in 1..Len(seq) }

Min(a, b) == IF a <= b THEN a ELSE b

\* Rows of `rows` whose timestamps strictly increase in insertion order.
StrictlyIncreasing(rows) ==
    \A i, j \in 1..Len(rows) : i < j => rows[i].Timestamp < rows[j].Timestamp

\* The rows of `rows` after its k first ones.
DropFirst(rows, k) ==
    IF k >= Len(rows) THEN <<>> ELSE SubSeq(rows, k + 1, Len(rows))

\* The row the current insert_event call writes.
NewRow == Row(event, message.bytes)

\* insert_event has returned to line 163.
InsertReturned == pc = "log_stored"

\* insert_event has raised into the handler of line 164.
InsertRaised == pc = "except_db"

\* insert_event is past its eviction (line 73) and has not written yet.
AfterEviction == pc \in {"vacuum", "recheck"}

\* C1: after every insert_event call that returns successfully the size of
\* the database file is strictly below MAX_SIZE_BYTES.
C1_BelowCeilingAfterInsert ==
    InsertReturned => FileSize(store, free) < MAX_SIZE_BYTES

C3_StillOverCeilingRaises ==
    [][ ( /\ pc = "recheck"
          /\ FileSize(store, free) >= MAX_SIZE_BYTES
          /\ pc' # pc )
        => ( /\ pc' = "except_db"
             /\ exc' = Exc("sqlite3.Error", SIZE_LIMIT_MSG)
             /\ store' = store )
      ]_vars
    /\ [][ pc = "except_db" => store' = store ]_vars

\* C3 witness: the size-limit error is being handled after an eviction that
\* removed rows and left the file over the ceiling.
C3_Witness ==
    /\ InsertRaised
    /\ exc.msg = SIZE_LIMIT_MSG
    /\ Len(store) < Len(prior)
    /\ FileSize(store, free) >= MAX_SIZE_BYTES

\* C4: for every payload the normalization step of _process_message
\* produces an event with a timestamp, level, source and a non-empty
\* message and never raises: once a received message is past line 159 an
\* event is held and its message is a non-empty string.
C4_NormalizationTotal ==
    (message.held /\ pc # "process")
    => ( /\ event.held
         /\ event.loglevel.t = "str"
         /\ event.source # None
         /\ event.content.t = "str"
         /\ event.content.s # "" )

\* C5: no received message, whatever its content and whatever the outcome
\* of its store write, makes the receive loop exit: the handler of line 133,
\* which ends start, is never entered while a received message is held.
C5_MessageNeverEndsLoop ==
    message.held => pc # "except_start"

\* The collector is serving: bound and inside the loop of lines 123-131.
Serving ==
    pc \in {"while", "poll", "recv", "process", "insert_event", "evict",
            "vacuum", "recheck", "insert", "log_stored", "except_db"}

\* start has run its cleanup: socket closed, context terminated.
Stopped ==
    /\ pc \in {"returned", "exited"}
    /\ socket = "closed"
    /\ context = "terminated"

\* C6: whenever stop is requested while the collector is serving, the
\* collector eventually reaches Stopped with the socket closed and the
\* context terminated (checked under FairSpec: the main thread keeps
\* taking steps).
C6_StopLeadsToStopped ==
    (Serving /\ ~running) ~> Stopped

\* C6 witness: the collector is Stopped after a signal that arrived in the
\* middle of an iteration, with no exception in flight.
C6_Witness ==
    /\ Stopped
    /\ ~running
    /\ begunAfterStop = 1
    /\ exc = NoExc

\* C7: once the running flag has been cleared no insert_event call is
\* begun, at whatever point of the iteration the signal arrives.
C7_NoInsertBegunAfterStop ==
    [][ (pc # "insert_event" /\ pc' = "insert_event") => running ]_vars

\* C7 as amended: after the running flag has been cleared at most one
\* insert_event call is begun (by the iteration already past line 123), and
\* the next evaluation of line 123 leaves the loop.
C7_AtMostOneInsertAfterStop ==
    /\ [](begunAfterStop <= 1)
    /\ [][ (pc = "while" /\ ~running /\ pc' # pc) => pc' = "cleanup" ]_vars

\* C7 witness: an insert_event call begun after the signal has returned.
C7_Witness ==
    /\ InsertReturned
    /\ ~running
    /\ begunAfterStop = 1

\* The prior rows the current insert_event call has deleted.
Evicted == { r \in Range(prior) : r \notin Range(store) }

\* C8: every evicted row has a timestamp less than or equal to that of
\* every prior row that is retained.
C8_EvictsGloballyOldest ==
    AfterEviction =>
        /\ Range(store) \subseteq Range(prior)
        /\ \A e \in Evicted, r \in Range(store) : e.Timestamp <= r.Timestamp

\* C8 witness: an eviction kept a row inserted before a row it removed, the
\* two differing in level, source and category.
C8_Witness ==
    /\ AfterEviction
    /\ \E i, j \in 1..Len(prior) :
         /\ i < j
         /\ prior[i] \in Range(store)
         /\ prior[j] \in Evicted
         /\ prior[i].Loglevel # prior[j].Loglevel
         /\ prior[i].Source # prior[j].Source
         /\ prior[i].Category # prior[j].Category

\* C9: a single insert_event call deletes at most num_entries prior rows,
\* also when several rows share a timestamp.
C9_AtMostOneBatchDeleted ==
    AfterEviction => Len(prior) - Len(store) <= EvictBatch

\* C10: when insert_event raises the size-limit error the loop reports a
\* warning, writes nothing for the message, goes on serving, and makes no
\* second insert_event call for it.
C10_CapacityErrorDropsMessage ==
    /\ [](calls <= 1)
    /\ [][ ( /\ pc = "except_db"
             /\ exc.msg = SIZE_LIMIT_MSG
             /\ pc' # pc )
           => ( /\ report'.level = "WARNING"
                /\ pc' = "while"
                /\ store' = store
                /\ calls' = calls
                /\ exc' = NoExc )
         ]_vars

\* C10 witness: the loop is serving again after the size-limit warning,
\* with the message's single insert_event call made and its row not stored.
C10_Witness ==
    /\ pc = "poll"
    /\ running
    /\ calls = 1
    /\ report.level = "WARNING"
    /\ store = _remove_oldest_entries(prior, num_entries)
    /\ Len(store) < Len(prior)

\* The main thread: every action but the signal handler.
Main ==
    \/ Bind \/ BindFails \/ While \/ PollTimeout \/ PollReady
    \/ TransportError \/ Recv \/ RecvUndecodable \/ ExceptStart \/ Cleanup
    \/ MainCleanup \/ Process \/ LogStored \/ ExceptDb \/ Measure \/ Evict
    \/ Vacuum \/ Recheck \/ Insert \/ StorageError

\* The interpreter keeps running the main thread until it exits.
FairSpec == Spec /\ WF_vars(Main)

ZMQ_ERROR_LOG == Log("ERROR", "ZMQ Error receiving message")

\* C11: a transport error raised by poll or receive is reported and does not
\* end the loop: the step that writes the report goes back to line 123, from
\* where a running collector polls again, and no insert_event call is made
\* and no row written in that iteration.
C11_TransportErrorContinues ==
    /\ [][ ( /\ pc \in {"poll", "recv"}
             /\ report' = ZMQ_ERROR_LOG
             /\ report # ZMQ_ERROR_LOG )
           => ( /\ pc' = "while"
                /\ store' = store
                /\ calls' = calls
                /\ received' = received
                /\ socket' = socket
                /\ exc' = exc )
         ]_vars
    /\ [][ (pc = "while" /\ running /\ pc' # pc) => pc' = "poll" ]_vars
    /\ [][ (pc \in {"while", "poll"}) => (store' = store /\ calls' = calls)
         ]_vars

\* C11 witness: a running collector polls again after a transport error
\* that followed a stored message.
C11_Witness ==
    /\ pc = "poll"
    /\ running
    /\ report = ZMQ_ERROR_LOG
    /\ socket = "bound"
    /\ Len(store) = 1

BIND_ERROR == Exc("zmq.ZMQError", "Address already in use")
CLOSED_SOCKET_ERROR == Exc("zmq.ZMQError", "Socket operation on non-socket")

\* C12: if bind fails the collector never serves: nothing is polled,
\* received or inserted, the error stays in flight up to the caller, and
\* once start has ended the socket is closed and the context terminated.
C12_BindFailureNeverServes ==
    /\ [][ (pc = "start" /\ socket' # "bound" /\ pc' # pc)
           => (exc' = BIND_ERROR /\ pc' = "except_start") ]_vars
    /\ [][ exc = BIND_ERROR => exc' = BIND_ERROR ]_vars
    /\ [](exc = BIND_ERROR =>
            /\ ~Serving
            /\ socket # "bound"
            /\ received = 0
            /\ calls = 0
            /\ store = <<>>
            /\ pc \in {"except_start", "cleanup", "returned", "exited"}
            /\ pc \in {"returned", "exited"} =>
                  (socket = "closed" /\ context = "terminated"))

\* C12 witness: start has raised the bind error to main and the resources
\* are released.
C12_Witness ==
    /\ exc = BIND_ERROR
    /\ pc = "returned"
    /\ socket = "closed"
    /\ context = "terminated"
    /\ report = Log("INFO", "Cleaning up resources...")

----------------------------------------------------------------------------
(* Events the collector does not cause itself *)

\* The process is killed inside insert_event after the eviction of line 73
\* has been committed and before the INSERT of lines 80-84 is; an
\* uncommitted statement leaves nothing in the file.
Crash ==
    /\ pc \in {"vacuum", "recheck", "insert"}
    /\ pc' = "crashed"
    /\ UNCHANGED <<dbVars, netVars, msgVars, running, exc, report, now,
                   begunAfterStop, cleanups>>

\* A caller that has seen start() end calls it again on the same collector.
Restart ==
    /\ pc = "returned"
    /\ cleanups < MaxStarts
    /\ pc' = "start"
    /\ exc' = NoExc
    /\ UNCHANGED <<dbVars, netVars, msgVars, running, report, now,
                   begunAfterStop, cleanups>>

EnvNext ==
    \/ Next
    \/ Crash
    \/ Restart

EnvSpec == Init /\ [][EnvNext]_vars

\* The loop has been left, for good or by an exception.
LeftServing ==
    \/ pc \in {"except_start", "cleanup", "returned", "exited", "crashed"}
    \/ cleanups >= 1

\* C13: the lifecycle only moves forward: the running flag, once cleared, is
\* never set again; the loop is entered only by the first successful bind;
\* once the loop has been left no step, a second call of start included,
\* brings the collector back to serving.
C13_LifecycleForwardOnly ==
    /\ [][ running' => running ]_vars
    /\ [][ (~Serving /\ Serving') =>
             (pc = "start" /\ socket = "open" /\ socket' = "bound"
              /\ cleanups = 0) ]_vars
    /\ [][ LeftServing => ~Serving' ]_vars

\* C13 witness: a second call of start, made while the running flag is
\* still set, has failed at bind.
C13_Witness ==
    /\ pc = "except_start"
    /\ cleanups = 1
    /\ running
    /\ socket = "closed"
    /\ exc = CLOSED_SOCKET_ERROR

\* `sub` is `rows` with the rows of some timestamps taken out.
MinusSomeTimestamps(sub, rows) ==
    \E T \in SUBSET { rows[i].Timestamp : i \in 1..Len(rows) } :
        LET Keep(r) == r.Timestamp \notin T IN sub = SelectSeq(rows, Keep)

\* C18: a crash inside insert_event after the eviction and before the write
\* leaves a store that holds only rows it held before the call, without the
\* new row, in a file no larger than before the call.
C18_CrashLeavesSubset ==
    (pc = "crashed" /\ 10 * current_size >= 9 * MAX_SIZE_BYTES) =>
        /\ MinusSomeTimestamps(store, prior)
        /\ Len(store) <= Len(prior)
        /\ FileSize(store, free) <= current_size

\* C18 witness: the crash came between the eviction and the compaction; the
\* evicted rows are gone and their pages are still in the file.
C18_Witness ==
    /\ pc = "crashed"
    /\ 10 * current_size >= 9 * MAX_SIZE_BYTES
    /\ Len(store) < Len(prior)
    /\ free > 0
    /\ FileSize(store, free) = current_size

----------------------------------------------------------------------------
(* One message through _process_message, for every payload of Payloads *)

\* The collector is serving, has just received a payload (line 127) and is
\* about to process it (line 128).
NormInit ==
    /\ store = <<>>
    /\ free = 0
    /\ running = TRUE
    /\ pc = "process"
    /\ socket = "bound"
    /\ context = "open"
    /\ message \in { [text |-> p, bytes |-> b, held |-> TRUE] :
                        p \in Payloads, b \in RowSizes }
    /\ event = NoEvent
    /\ current_size = 0
    /\ exc = NoExc
    /\ report = Log("INFO", "Log collector started")
    /\ now \in StartTime..(StartTime + MaxTicks)
    /\ received = 1
    /\ prior = <<>>
    /\ calls = 0
    /\ begunAfterStop = 0
    /\ cleanups = 0

NormNext ==
    \/ Process
    \/ Measure
    \/ Insert
    \/ LogStored
    \/ ExceptDb
    \/ ExceptStart

NormSpec == NormInit /\ [][NormNext]_vars

\* The payload held is not JSON.
NotJson == message.held /\ json_loads(message.text).kind = "JSONDecodeError"

\* The payload held is a JSON object.
IsObject == message.held /\ json_loads(message.text).kind = "dict"

\* Line 159 or 152 has been passed and an event was built.
EventBuilt == pc # "process" /\ event.held

\* C14: for a payload that is not JSON the event handed to the store has
\* level "INFO", source "UNKNOWN", no category, the raw payload as message
\* and the current time as timestamp, and that is the row written.
C14_FallbackEvent ==
    NotJson =>
        /\ pc # "process" =>
              event = [held |-> TRUE, timestamp |-> now,
                       loglevel |-> Str("INFO"), source |-> Str("UNKNOWN"),
                       category |-> None, content |-> Str(message.text)]
        /\ InsertReturned =>
              store = << [Timestamp |-> now, Loglevel |-> Str("INFO"),
                          Source |-> Str("UNKNOWN"), Category |-> None,
                          Message |-> Str(message.text),
                          bytes |-> message.bytes] >>

\* C14 witness: the row of the payload not-json-at-all has been written.
C14_Witness ==
    /\ InsertReturned
    /\ message.text = "not-json-at-all"
    /\ Len(store) = 1
    /\ store[1].Message = Str("not-json-at-all")

\* The value the claim gives a field: the field, or the default when the
\* object has no such key.
FieldOr(v, default) == IF v.t = "absent" THEN default ELSE v

\* C15: for a payload that is a JSON object the event handed to the store
\* has the uppercased level ("INFO" when absent), the source ("UNKNOWN" when
\* absent), the category (NULL when absent) and the message (the raw payload
\* when absent), and that is the row written.
C15_ObjectEvent ==
    (IsObject /\ EventBuilt) =>
        LET d == json_loads(message.text) IN
        /\ event.loglevel = Str(upper(FieldOr(d.level, Str("INFO")).s))
        /\ event.source = FieldOr(d.source, Str("UNKNOWN"))
        /\ event.category = FieldOr(d.category, None)
        /\ event.content = FieldOr(d.message, Str(message.text))
        /\ message.text = P_MIN =>
              /\ event.loglevel = Str("WARN")
              /\ event.source = Str("agentA")
              /\ event.category = None
              /\ event.content = Str("disk low")
              /\ event.timestamp = now
        /\ message.text = P_EMPTYOBJ => event.content = Str("{}")
        /\ InsertReturned =>
              /\ Len(store) = 1
              /\ store[1].Loglevel = event.loglevel
              /\ store[1].Source = event.source
              /\ store[1].Category = event.category
              /\ store[1].Message = event.content

\* C15 witness: the row of the object with level "warn", a source, a message
\* and no category has been written.
C15_Witness ==
    /\ InsertReturned
    /\ message.text = P_MIN
    /\ Len(store) = 1
    /\ store[1].Loglevel = Str("WARN")
    /\ store[1].Category = None

\* The timestamp field of the object is missing or is no ISO-8601 string.
TimestampAbsentOrUnparseable ==
    LET v == json_loads(message.text).timestamp IN
    \/ v.t = "absent"
    \/ v.t # "str"
    \/ ~fromisoformat(v.s).ok

\* C16: an object without a timestamp field, or with one that cannot be
\* parsed, gets the ingestion time as its timestamp (objects whose level is
\* a string or missing, so that nothing else can fail).
C16_TimestampDefaultsToNow ==
    ( /\ IsObject
      /\ json_loads(message.text).level.t \in {"absent", "str"}
      /\ TimestampAbsentOrUnparseable
      /\ pc # "process" )
    => (event.held /\ event.timestamp = now)

----------------------------------------------------------------------------

\* The current insert_event call is past the test of line 72.
InCall ==
    pc \in {"evict", "vacuum", "recheck", "insert", "log_stored", "except_db"}

\* C17: when the size measured at line 70 is below 90% of MAX_SIZE_BYTES the
\* call goes straight to the INSERT: no row is deleted, there is no VACUUM
\* and no ceiling check, and the store afterwards is the prior rows plus the
\* new row (the prior rows alone when the INSERT raises); no step other than
\* the eviction of line 73 removes or changes a row.
C17_BelowThresholdOnlyAppends ==
    /\ []( (InCall /\ 10 * current_size < 9 * MAX_SIZE_BYTES) =>
             /\ pc \in {"insert", "log_stored", "except_db"}
             /\ pc \in {"insert", "except_db"} => store = prior
             /\ pc = "log_stored" => store = prior \o <<NewRow>>
             /\ FileSize(prior, free) <= current_size )
    /\ [][ store' # store =>
             \/ pc = "evict"
             \/ pc = "insert" /\ store' = Append(store, NewRow) ]_vars

\* C17 witness: a call that found the file below the threshold has returned
\* with both prior rows and the new one.
C17_Witness ==
    /\ InsertReturned
    /\ 10 * current_size < 9 * MAX_SIZE_BYTES
    /\ Len(prior) = 2
    /\ store = prior \o <<NewRow>>

\* The timestamps of `rows`.
Timestamps(rows) == { rows[i].Timestamp : i \in 1..Len(rows) }

\* `sub` is `rows` without its oldest rows: the rows up to some timestamp
\* are gone, that timestamp is among the EvictBatch lowest, and a full batch
\* (or every row) is gone.
MinusOldest(sub, rows) ==
    \E cut \in Timestamps(rows) :
        LET Newer(r) == r.Timestamp > cut IN
        /\ sub = SelectSeq(rows, Newer)
        /\ Cardinality({ i \in 1..Len(rows) : rows[i].Timestamp < cut })
              < EvictBatch
        /\ Len(rows) - Len(sub) >= Min(EvictBatch, Len(rows))

\* C19: when insert_event raises the size-limit error the eviction of the
\* call stays committed: the store holds the prior rows minus the evicted
\* oldest ones, not the new row, and handling the error restores nothing.
C19_FailedInsertKeepsEviction ==
    /\ []( (InsertRaised /\ exc.msg = SIZE_LIMIT_MSG) =>
             /\ MinusOldest(store, prior)
             /\ Len(store) < Len(prior) )
    /\ [][ (pc \in {"recheck", "except_db"} /\ pc' \in {"except_db", "while"})
           => store' = store ]_vars

\* C19 witness: the size-limit error is in flight, exactly one batch of rows
\* is gone and the rest of the prior rows is still stored.
C19_Witness ==
    /\ InsertRaised
    /\ exc.msg = SIZE_LIMIT_MSG
    /\ Len(prior) - Len(store) = EvictBatch
    /\ store # <<>>

\* start() is running: before bind, in the loop, or in its except clause.
InStart == pc \in {"start", "except_start"} \/ Serving

\* C20: every way out of start goes through cleanup, which closes the socket
\* and terminates the context; the second cleanup, run by main, leaves the
\* socket, the context and the store as they are.
C20_CleanupOnEveryExit ==
    /\ [][ (InStart /\ ~InStart') => pc' = "cleanup" ]_vars
    /\ [][ (pc = "cleanup" /\ pc' # pc) =>
             (pc' = "returned" /\ cleanups' = cleanups + 1) ]_vars
    /\ []( pc \in {"returned", "exited"} =>
             (cleanups >= 1 /\ socket = "closed" /\ context = "terminated") )
    /\ [][ (pc = "returned" /\ pc' = "exited") =>
             /\ cleanups' = cleanups + 1
             /\ socket' = socket
             /\ context' = context
             /\ store' = store
             /\ free' = free ]_vars
    /\ [][ (pc \in {"cleanup", "returned", "exited"}) => store' = store
         ]_vars

\* C20 witness: main has run the second cleanup after an exception escaped
\* from message processing, with the stored rows still there.
C20_Witness ==
    /\ pc = "exited"
    /\ cleanups = 2
    /\ exc.type = "AttributeError"
    /\ socket = "closed"
    /\ context = "terminated"
    /\ store # <<>>

====
